---- MODULE Spec2Model ----
(***************************************************************************)
(* Model of codesys::run_motor_monitoring (src/src/lib.rs): the periodic   *)
(* acquisition loop, the shared Vec behind the tokio Mutex, the spawned    *)
(* insert tasks and the five draw_chart calls.                             *)
(*                                                                         *)
(* f64 values are kept exactly, as integers counting thousandths           *)
(* (10.1 is 10100); every value the loop produces from u16 registers is a  *)
(* multiple of 0.001, so no rounding is hidden.                            *)
(***************************************************************************)
EXTENDS Integers, Sequences, FiniteSets, TLC

\* number of ticks of the interval the model follows
MaxCycles == 2

VARIABLES
    pc,           \* position of run_motor_monitoring
    k,            \* index inside the current phase (register address, push or chart number)
    cycle,        \* ticks of the interval that have fired
    clock,        \* Local::now().timestamp()
    table,        \* motor_data table exists in motor_data.db
    store,        \* rows of the motor_data table, in insertion order
    issued,       \* read_input_registers requests issued in this cycle: <<address, count>>
    readings,     \* register values returned in this cycle
    data,         \* the MotorData of this cycle
    motor_data,   \* the Vec<(i64, f64)> behind the Mutex
    locked,       \* the MutexGuard motor_data_lock is alive
    tasks,        \* spawned insert tasks, in spawn order: [data, status]
    chartSeries,  \* the slice handed to the last draw_chart call of each chart
    chartResult,  \* result of each draw_chart call of this cycle
    failedRead,   \* address of the register read that failed, -1 when none
    panicCause,   \* which unwrap() of run_motor_monitoring panicked
    shutdown,     \* the runtime was dropped after the panic
    fnRegs,       \* function harness: the four raw register values given to the derivation
    fnNow,        \* function harness: Local::now().timestamp() at the next derivation
    fnSamples,    \* function harness: the MotorData derived so far from fnRegs
    fnSeries,     \* function harness: the slice given to draw_chart
    fnOutcome     \* function harness: how the draw_chart call ended

\* the variables of run_motor_monitoring and of the tasks it spawns
progVars == <<pc, k, cycle, clock, table, store, issued, readings, data, motor_data,
              locked, tasks, chartSeries, chartResult, failedRead, panicCause, shutdown>>

\* the variables of the harness that calls the pub functions on their own
fnVars == <<fnRegs, fnNow, fnSamples, fnSeries, fnOutcome>>

vars == <<progVars, fnVars>>

\* the variables the scheduler task owns or writes
schedVars == <<pc, k, cycle, clock, issued, readings, data, motor_data, locked,
               chartSeries, chartResult, failedRead, panicCause>>

----------------------------------------------------------------------------
\* f64 arithmetic on thousandths

\* `x as f64` for a u16 register value
AsF64(x) == x * 1000

FMul(x, y) == (x * y) \div 1000

FDiv(x, y) == (x * 1000) \div y

\* let period = 1.0
period == AsF64(1)

\* let current_torque = 10.1
torque_example == 10100


\* calculate_power, had the conversion to kW been left out
calculate_power_watts(volts, amps) == FMul(volts, amps)

calculate_power(volts, amps) == FDiv(FMul(volts, amps), AsF64(1000))


\* calculate_cycles, had it kept a running total over the cycles
calculate_cycles_total(torque, per) == FMul(torque, per) * cycle

calculate_cycles(torque, per) == FMul(torque, per)

\* the MotorData built at the end of read_modbus_data
MotorData(voltage_reading, current_reading, heat_reading, speed_reading, now) ==
    [timestamp      |-> now,
     current_power  |-> calculate_power(voltage_reading, current_reading),
     current_torque |-> torque_example,
     current_speed  |-> speed_reading,
     current_heat   |-> heat_reading,
     current_cycles |-> calculate_cycles(torque_example, period)]

NoData == [timestamp |-> 0, current_power |-> 0, current_torque |-> 0,
           current_speed |-> 0, current_heat |-> 0, current_cycles |-> 0]

\* the five charts, in the order of the pushes and of the draw_chart calls
Channels == 1..5

ChartFile == <<"current_power.png", "current_torque.png", "current_speed.png",
               "current_heat.png", "current_cycles.png">>

\* the field of a sample that belongs to a channel
ChannelValue(d, ch) ==
    CASE ch = 1 -> d.current_power
      [] ch = 2 -> d.current_torque
      [] ch = 3 -> d.current_speed
      [] ch = 4 -> d.current_heat
      [] ch = 5 -> d.current_cycles

\* the value pushed by the ch-th push statement
PushValue(d, ch) == ChannelValue(d, ch)

\* the slice passed to the draw_chart call of a chart
DrawArg(ch) == motor_data

\* values the device can return for the register at an address
DeviceValues(addr) ==
    CASE addr = 0 -> {0, 100}
      [] addr = 1 -> {10}
      [] addr = 2 -> {20}
      [] addr = 3 -> {1500}

\* a row that an earlier run left in motor_data.db
OldRow == [id |-> 1, timestamp |-> 0, current_power |-> 500, current_torque |-> 10100,
           current_speed |-> 1000000, current_heat |-> 30000, current_cycles |-> 10100]

\* the row an INSERT of a sample adds; id is the INTEGER PRIMARY KEY
Row(d, rows) ==
    [id |-> Len(rows) + 1, timestamp |-> d.timestamp, current_power |-> d.current_power,
     current_torque |-> d.current_torque, current_speed |-> d.current_speed,
     current_heat |-> d.current_heat, current_cycles |-> d.current_cycles]

NoCharts == [ch \in Channels |-> "none"]

----------------------------------------------------------------------------
\* f64::max as fold uses it: a NaN operand is ignored
NaN == [nan |-> TRUE, v |-> 0]

F64(x) == [nan |-> FALSE, v |-> x]

F64Max(a, b) ==
    IF a.nan THEN b
    ELSE IF b.nan THEN a
    ELSE IF a.v >= b.v THEN a ELSE b

\* data.iter().map(|d| d.1).fold(0.0 / 0.0, f64::max)
RECURSIVE FoldMax(_, _)
FoldMax(acc, s) ==
    IF s = <<>> THEN acc ELSE FoldMax(F64Max(acc, F64(Head(s)[2])), Tail(s))

NoOutcome == [result |-> "none", x_first |-> 0, x_last |-> 0, y_max |-> NaN]

\* the ways a call draw_chart(filename, data, ...) can end: with no point,
\* data.first().unwrap() panics; otherwise the axes are built from the data
\* and the backend calls return Ok or Err
draw_chart(series) ==
    IF series = <<>>
      THEN {[result |-> "panic", x_first |-> 0, x_last |-> 0, y_max |-> NaN]}
      ELSE {[result  |-> r,
             x_first |-> series[1][1],
             x_last  |-> series[Len(series)][1],
             y_max   |-> FoldMax(NaN, series)] : r \in {"ok", "err"}}

\* the harness is not running
FnOff ==
    /\ fnRegs = <<0, 0, 0, 0>>
    /\ fnNow = 0
    /\ fnSamples = <<>>
    /\ fnSeries = <<>>
    /\ fnOutcome = NoOutcome

\* run_motor_monitoring is entered
ProgramInit ==
    /\ pc = "setup"
    /\ k = 0
    /\ cycle = 0
    /\ clock = 0
    /\ table \in BOOLEAN
    /\ store \in (IF table THEN {<<>>, <<OldRow>>} ELSE {<<>>})
    /\ issued = <<>>
    /\ readings = <<>>
    /\ data = NoData
    /\ motor_data = <<>>
    /\ locked = FALSE
    /\ tasks = <<>>
    /\ chartSeries = [ch \in Channels |-> <<>>]
    /\ chartResult = NoCharts
    /\ failedRead = -1
    /\ panicCause = "none"
    /\ shutdown = FALSE

Init == ProgramInit /\ FnOff

\* an unwrap() on an Err inside run_motor_monitoring: the task unwinds and
\* the guard, if alive, is dropped
Panic(cause) ==
    /\ pc' = "panicked"
    /\ panicCause' = cause
    /\ locked' = FALSE


\* SetupDatabase, had the statement been DROP TABLE and CREATE TABLE
SetupDatabase_recreate ==
    /\ pc = "setup"
    /\ table' = TRUE
    /\ store' = <<>>
    /\ pc' = "open"
    /\ UNCHANGED fnVars
    /\ UNCHANGED <<k, cycle, clock, issued, readings, data, motor_data, locked,
                   tasks, chartSeries, chartResult, failedRead, panicCause, shutdown>>

\* setup_database().await: CREATE TABLE IF NOT EXISTS
SetupDatabase ==
    /\ pc = "setup"
    /\ table' = TRUE
    /\ pc' = "open"
    /\ UNCHANGED fnVars
    /\ UNCHANGED <<k, cycle, clock, store, issued, readings, data, motor_data, locked,
                   tasks, chartSeries, chartResult, failedRead, panicCause, shutdown>>

\* connect or CREATE TABLE fails: unwrap() panics
SetupDatabaseFail ==
    /\ pc = "setup"
    /\ Panic("setup")
    /\ UNCHANGED fnVars
    /\ UNCHANGED <<k, cycle, clock, table, store, issued, readings, data, motor_data,
                   tasks, chartSeries, chartResult, failedRead, shutdown>>

\* open_native_async().unwrap(), Client::new, time::interval, Arc::new(Mutex::new(Vec::new()))
OpenPort ==
    /\ pc = "open"
    /\ pc' = "idle"
    /\ UNCHANGED fnVars
    /\ UNCHANGED <<k, cycle, clock, table, store, issued, readings, data, motor_data, locked,
                   tasks, chartSeries, chartResult, failedRead, panicCause, shutdown>>

OpenPortFail ==
    /\ pc = "open"
    /\ Panic("open")
    /\ UNCHANGED fnVars
    /\ UNCHANGED <<k, cycle, clock, table, store, issued, readings, data, motor_data,
                   tasks, chartSeries, chartResult, failedRead, shutdown>>

\* Tick, had the loop awaited the JoinHandles of its inserts before the next tick
Tick_joins ==
    /\ pc = "idle"
    /\ \A i \in DOMAIN tasks : tasks[i].status # "pending"
    /\ cycle < MaxCycles
    /\ cycle' = cycle + 1
    /\ \E d \in 0..1 : clock' = clock + d
    /\ pc' = "read"
    /\ k' = 0
    /\ issued' = <<>>
    /\ readings' = <<>>
    /\ chartResult' = NoCharts
    /\ UNCHANGED fnVars
    /\ UNCHANGED <<table, store, data, motor_data, locked, tasks, chartSeries,
                   failedRead, panicCause, shutdown>>

\* Tick, had the timer started a cycle while the previous one was still pushing
Tick_early ==
    /\ pc \in {"idle", "push"}
    /\ cycle < MaxCycles
    /\ cycle' = cycle + 1
    /\ \E d \in 0..1 : clock' = clock + d
    /\ pc' = "read"
    /\ k' = 0
    /\ issued' = <<>>
    /\ readings' = <<>>
    /\ chartResult' = NoCharts
    /\ UNCHANGED fnVars
    /\ UNCHANGED <<table, store, data, motor_data, locked, tasks, chartSeries,
                   failedRead, panicCause, shutdown>>

\* interval.tick().await returns; the wall clock has not gone back meanwhile
Tick ==
    /\ pc = "idle"
    /\ cycle < MaxCycles
    /\ cycle' = cycle + 1
    /\ \E d \in 0..1 : clock' = clock + d
    /\ pc' = "read"
    /\ k' = 0
    /\ issued' = <<>>
    /\ readings' = <<>>
    /\ chartResult' = NoCharts
    /\ UNCHANGED fnVars
    /\ UNCHANGED <<table, store, data, motor_data, locked, tasks, chartSeries,
                   failedRead, panicCause, shutdown>>


\* ReadIssue, had the addresses been counted down from 3
ReadIssue_reversed ==
    /\ pc = "read"
    /\ issued' = Append(issued, <<3 - k, 1>>)
    /\ pc' = "await"
    /\ UNCHANGED fnVars
    /\ UNCHANGED <<k, cycle, clock, table, store, readings, data, motor_data, locked,
                   tasks, chartSeries, chartResult, failedRead, panicCause, shutdown>>

\* ctx.read_input_registers(k, 1) is called
ReadIssue ==
    /\ pc = "read"
    /\ issued' = Append(issued, <<k, 1>>)
    /\ pc' = "await"
    /\ UNCHANGED fnVars
    /\ UNCHANGED <<k, cycle, clock, table, store, readings, data, motor_data, locked,
                   tasks, chartSeries, chartResult, failedRead, panicCause, shutdown>>

\* the read returns Ok; after the fourth, the sample is derived and
\* read_modbus_data returns
ReadReturn ==
    /\ pc = "await"
    /\ \E v \in DeviceValues(k) :
         LET rs == Append(readings, AsF64(v)) IN
         /\ readings' = rs
         /\ IF k < 3
              THEN /\ k' = k + 1
                   /\ pc' = "read"
                   /\ data' = data
              ELSE /\ k' = 0
                   /\ pc' = "lock"
                   /\ data' = MotorData(rs[1], rs[2], rs[3], rs[4], clock)
    /\ UNCHANGED fnVars
    /\ UNCHANGED <<cycle, clock, table, store, issued, motor_data, locked,
                   tasks, chartSeries, chartResult, failedRead, panicCause, shutdown>>

\* ReadFail, had the loop skipped the cycle instead of unwrapping
ReadFail_skip ==
    /\ pc = "await"
    /\ failedRead' = k
    /\ pc' = "idle"
    /\ k' = 0
    /\ UNCHANGED fnVars
    /\ UNCHANGED <<cycle, clock, table, store, issued, readings, data, motor_data, locked,
                   tasks, chartSeries, chartResult, panicCause, shutdown>>

\* the read returns Err: unwrap() panics
ReadFail ==
    /\ pc = "await"
    /\ failedRead' = k
    /\ Panic("read")
    /\ UNCHANGED fnVars
    /\ UNCHANGED <<k, cycle, clock, table, store, issued, readings, data, motor_data,
                   tasks, chartSeries, chartResult, shutdown>>

\* motor_data.lock().await
Lock ==
    /\ pc = "lock"
    /\ ~locked
    /\ locked' = TRUE
    /\ pc' = "push"
    /\ k' = 1
    /\ UNCHANGED fnVars
    /\ UNCHANGED <<cycle, clock, table, store, issued, readings, data, motor_data,
                   tasks, chartSeries, chartResult, failedRead, panicCause, shutdown>>


\* Push, had the Vec been a window that drops its oldest entry once it holds a cycle
Push_evict ==
    /\ pc = "push"
    /\ motor_data' = Append(IF Len(motor_data) >= 5 THEN Tail(motor_data) ELSE motor_data,
                            <<data.timestamp, PushValue(data, k)>>)
    /\ IF k < 5
         THEN /\ k' = k + 1
              /\ pc' = "push"
         ELSE /\ k' = 0
              /\ pc' = "spawn"
    /\ UNCHANGED fnVars
    /\ UNCHANGED <<cycle, clock, table, store, issued, readings, data, locked,
                   tasks, chartSeries, chartResult, failedRead, panicCause, shutdown>>

\* Push, had the entry been inserted at the front of the Vec
Push_front ==
    /\ pc = "push"
    /\ motor_data' = <<<<data.timestamp, PushValue(data, k)>>>> \o motor_data
    /\ IF k < 5
         THEN /\ k' = k + 1
              /\ pc' = "push"
         ELSE /\ k' = 0
              /\ pc' = "spawn"
    /\ UNCHANGED fnVars
    /\ UNCHANGED <<cycle, clock, table, store, issued, readings, data, locked,
                   tasks, chartSeries, chartResult, failedRead, panicCause, shutdown>>

\* Push, had the loop gone on after the third push
Push_partial ==
    /\ pc = "push"
    /\ motor_data' = Append(motor_data, <<data.timestamp, PushValue(data, k)>>)
    /\ IF k < 3
         THEN /\ k' = k + 1
              /\ pc' = "push"
         ELSE /\ k' = 0
              /\ pc' = "spawn"
    /\ UNCHANGED fnVars
    /\ UNCHANGED <<cycle, clock, table, store, issued, readings, data, locked,
                   tasks, chartSeries, chartResult, failedRead, panicCause, shutdown>>

\* motor_data_lock.push((data.timestamp, data.<field k>))
Push ==
    /\ pc = "push"
    /\ motor_data' = Append(motor_data, <<data.timestamp, PushValue(data, k)>>)
    /\ IF k < 5
         THEN /\ k' = k + 1
              /\ pc' = "push"
         ELSE /\ k' = 0
              /\ pc' = "spawn"
    /\ UNCHANGED fnVars
    /\ UNCHANGED <<cycle, clock, table, store, issued, readings, data, locked,
                   tasks, chartSeries, chartResult, failedRead, panicCause, shutdown>>

\* tokio::spawn(async move { insert_motor_data(&pool, &data).await; })
Spawn ==
    /\ pc = "spawn"
    /\ tasks' = Append(tasks, [data |-> data, status |-> "pending"])
    /\ pc' = "draw"
    /\ k' = 1
    /\ UNCHANGED fnVars
    /\ UNCHANGED <<cycle, clock, table, store, issued, readings, data, motor_data, locked,
                   chartSeries, chartResult, failedRead, panicCause, shutdown>>

\* draw_chart(ChartFile[k], &motor_data_lock, ...) is entered
DrawCall ==
    /\ pc = "draw"
    /\ chartSeries' = [chartSeries EXCEPT ![k] = DrawArg(k)]
    /\ pc' = "drawing"
    /\ UNCHANGED fnVars
    /\ UNCHANGED <<k, cycle, clock, table, store, issued, readings, data, motor_data, locked,
                   tasks, chartResult, failedRead, panicCause, shutdown>>


\* DrawOk, had the guard outlived the loop body
DrawOk_keep ==
    /\ pc = "drawing"
    /\ chartSeries[k] # <<>>
    /\ chartResult' = [chartResult EXCEPT ![k] = "ok"]
    /\ IF k < 5
         THEN /\ k' = k + 1
              /\ pc' = "draw"
         ELSE /\ k' = 0
              /\ pc' = "idle"
    /\ UNCHANGED fnVars
    /\ UNCHANGED <<cycle, clock, table, store, issued, readings, data, motor_data, locked,
                   tasks, chartSeries, failedRead, panicCause, shutdown>>

\* draw_chart returns Ok(()); after the fifth the loop body ends and the
\* guard is dropped
DrawOk ==
    /\ pc = "drawing"
    /\ chartSeries[k] # <<>>
    /\ chartResult' = [chartResult EXCEPT ![k] = "ok"]
    /\ IF k < 5
         THEN /\ k' = k + 1
              /\ pc' = "draw"
              /\ locked' = locked
         ELSE /\ k' = 0
              /\ pc' = "idle"
              /\ locked' = FALSE
    /\ UNCHANGED fnVars
    /\ UNCHANGED <<cycle, clock, table, store, issued, readings, data, motor_data,
                   tasks, chartSeries, failedRead, panicCause, shutdown>>

\* draw_chart returns Err: unwrap() panics
DrawErr ==
    /\ pc = "drawing"
    /\ chartSeries[k] # <<>>
    /\ chartResult' = [chartResult EXCEPT ![k] = "err"]
    /\ Panic("render")
    /\ UNCHANGED fnVars
    /\ UNCHANGED <<k, cycle, clock, table, store, issued, readings, data, motor_data,
                   tasks, chartSeries, failedRead, shutdown>>


\* InsertOk, had the task borrowed the loop's data instead of moving its own in
InsertOk_shared(i) ==
    /\ tasks[i].status = "pending"
    /\ table
    /\ store' = Append(store, Row(data, store))
    /\ tasks' = [tasks EXCEPT ![i].status = "done"]
    /\ UNCHANGED fnVars
    /\ UNCHANGED <<schedVars, table, shutdown>>

\* the INSERT of a spawned task executes
InsertOk(i) ==
    /\ tasks[i].status = "pending"
    /\ table
    /\ store' = Append(store, Row(tasks[i].data, store))
    /\ tasks' = [tasks EXCEPT ![i].status = "done"]
    /\ UNCHANGED fnVars
    /\ UNCHANGED <<schedVars, table, shutdown>>

\* InsertFail, had the insert been awaited in the loop: its panic is the loop's
InsertFail_abort(i) ==
    /\ tasks[i].status = "pending"
    /\ tasks' = [tasks EXCEPT ![i].status = "failed"]
    /\ pc' = "panicked"
    /\ panicCause' = "insert"
    /\ locked' = FALSE
    /\ UNCHANGED fnVars
    /\ UNCHANGED <<k, cycle, clock, issued, readings, data, motor_data,
                   chartSeries, chartResult, failedRead, table, store, shutdown>>

\* execute() returns Err: unwrap() panics inside the spawned task; the
\* runtime catches the panic of a task and the JoinHandle was dropped
InsertFail(i) ==
    /\ tasks[i].status = "pending"
    /\ tasks' = [tasks EXCEPT ![i].status = "failed"]
    /\ UNCHANGED fnVars
    /\ UNCHANGED <<schedVars, table, store, shutdown>>

\* the panic of run_motor_monitoring leaves the runtime's block_on: the
\* runtime is dropped and the tasks that have not finished are cancelled
RuntimeShutdown ==
    /\ pc = "panicked"
    /\ ~shutdown
    /\ shutdown' = TRUE
    /\ tasks' = [i \in DOMAIN tasks |->
                   IF tasks[i].status = "pending"
                     THEN [tasks[i] EXCEPT !.status = "cancelled"]
                     ELSE tasks[i]]
    /\ UNCHANGED fnVars
    /\ UNCHANGED <<schedVars, table, store>>

Scheduler ==
    \/ SetupDatabase
    \/ SetupDatabaseFail
    \/ OpenPort
    \/ OpenPortFail
    \/ Tick
    \/ ReadIssue
    \/ ReadReturn
    \/ ReadFail
    \/ Lock
    \/ Push
    \/ Spawn
    \/ DrawCall
    \/ DrawOk
    \/ DrawErr

Persistence ==
    \/ \E i \in DOMAIN tasks : InsertOk(i)
    \/ \E i \in DOMAIN tasks : InsertFail(i)

Next ==
    \/ Scheduler
    \/ Persistence
    \/ RuntimeShutdown

Spec == Init /\ [][Next]_vars


\* the runtime keeps polling the task of run_motor_monitoring: the timer
\* fires and a step the loop can take is taken
FairSpec == Spec /\ WF_vars(Scheduler)


----------------------------------------------------------------------------
\* The pub functions called on their own, on arguments the loop does not
\* produce.

\* largest register value of the run of small values given to the derivation
MaxReg == 3

\* longest series given to draw_chart
MaxSeries == 2

\* raw u16 register values given to the derivation
FnRegValues == (0..MaxReg) \cup {40}

\* (timestamp, value) points of the series given to draw_chart
FnPoints == {<<t, v>> : t \in 0..1, v \in {1000, 3000}}

FnSeriesSet == UNION {[1..n -> FnPoints] : n \in 0..MaxSeries}

FnInit ==
    /\ ProgramInit
    /\ ~table
    /\ fnRegs \in {<<v, c, 20, 1500>> : v \in FnRegValues, c \in FnRegValues}
    /\ fnNow = 0
    /\ fnSamples = <<>>
    /\ fnSeries \in FnSeriesSet
    /\ fnOutcome = NoOutcome

\* the derivation of read_modbus_data on the four readings, as the clock goes on
FnDerive ==
    /\ Len(fnSamples) < 2
    /\ fnSamples' = Append(fnSamples,
                           MotorData(AsF64(fnRegs[1]), AsF64(fnRegs[2]),
                                     AsF64(fnRegs[3]), AsF64(fnRegs[4]), fnNow))
    /\ fnNow' = fnNow + 1
    /\ UNCHANGED <<fnRegs, fnSeries, fnOutcome>>
    /\ UNCHANGED progVars

\* draw_chart(filename, &fnSeries, ...) is called and ends
FnDrawChart ==
    /\ fnOutcome.result = "none"
    /\ fnOutcome' \in draw_chart(fnSeries)
    /\ UNCHANGED <<fnRegs, fnNow, fnSamples, fnSeries>>
    /\ UNCHANGED progVars

FnNext ==
    \/ FnDerive
    \/ FnDrawChart

FnSpec == FnInit /\ [][FnNext]_vars

----------------------------------------------------------------------------
\* the cycles whose five pushes have all been made
AppendsDone == IF pc \in {"read", "await", "lock", "push"} \/ panicCause = "read"
                 THEN cycle - 1
                 ELSE cycle

\* the sample of a cycle whose insert was spawned
SampleOf(c) == tasks[c].data

\* what a per-channel history holds after n cycles
ExpectedHistory(ch, n) ==
    [c \in 1..n |-> <<SampleOf(c).timestamp, ChannelValue(SampleOf(c), ch)>>]

\* C1: after N cycles have completed their append, the history kept for each
\* of the five channels (the sequence the code uses as that channel's
\* series) has exactly N entries.
C1_ChannelLengthIsCycleCount ==
    pc = "spawn" => \A ch \in Channels : Len(DrawArg(ch)) = AppendsDone

\* C2: the series handed to draw_chart for a channel's chart is exactly that
\* channel's history: one (timestamp, value of that channel) pair per
\* completed cycle and no value of another channel.
C2_SeriesIsChannelHistory ==
    pc = "drawing" => chartSeries[k] = ExpectedHistory(k, cycle)

\* C3: the buffer mutex is never held while a draw_chart call is in progress.
C3_LockNotHeldWhileDrawing ==
    ~(locked /\ pc = "drawing")

\* C4: a failed draw_chart call of a cycle leaves the scheduler running, so
\* the remaining charts of the cycle and the following cycles are still made.
C4_RenderFailureDoesNotStopScheduler ==
    (\E ch \in Channels : chartResult[ch] = "err") => pc # "panicked"

\* C5: when rendering fails in a cycle, the sample of the cycle is in the
\* buffer and its insert, unless it met a storage error, is still going to
\* complete or has completed with its row in the store.
C5_RenderFailureKeepsInsert ==
    (panicCause = "render" /\ tasks[cycle].status # "failed") =>
        /\ \A ch \in Channels :
             \E i \in DOMAIN motor_data :
                motor_data[i] = <<SampleOf(cycle).timestamp, ChannelValue(SampleOf(cycle), ch)>>
        /\ \/ tasks[cycle].status = "pending"
           \/ \E r \in DOMAIN store : store[r] = Row(SampleOf(cycle), SubSeq(store, 1, r - 1))

\* the scheduler has a step to take that is not cut off by the model's bound
Running == pc # "panicked" /\ ~(pc = "idle" /\ cycle = MaxCycles)

\* C6: a step in which a spawned insert fails changes nothing of the
\* scheduler (not its position, its cycle, its buffer, nor its panic state),
\* and with failed inserts behind it the scheduler's next step stays enabled.
C6_InsertFailureLeavesScheduler ==
    /\ [][(\E i \in DOMAIN tasks : tasks[i].status # "failed" /\ tasks'[i].status = "failed")
            => UNCHANGED schedVars]_vars
    /\ []((Running /\ \E i \in DOMAIN tasks : tasks[i].status = "failed") => ENABLED Scheduler)

C6_Witness ==
    /\ cycle = 2
    /\ pc = "drawing"
    /\ tasks[1].status = "failed"

\* C7: while inserts are in flight the scheduler is never waiting for them:
\* in every position of the loop its next step is enabled.
C7_SchedulerNeverWaitsForInsert ==
    (Running /\ \E i \in DOMAIN tasks : tasks[i].status = "pending") => ENABLED Scheduler

C7_Witness ==
    /\ cycle = 2
    /\ pc = "await"
    /\ k = 0
    /\ tasks[1].status = "pending"

\* C8: once a register read has failed, the scheduler is stopped for good at
\* that read: the requests issued in the cycle end with the failed one, and
\* nothing of the cycle was appended, dispatched or rendered.
C8_ReadFailureAbortsCycle ==
    failedRead # -1 =>
        /\ pc = "panicked"
        /\ panicCause = "read"
        /\ issued = [i \in 1..(failedRead + 1) |-> <<i - 1, 1>>]
        /\ Len(readings) = failedRead
        /\ Len(motor_data) = 5 * (cycle - 1)
        /\ Len(tasks) = cycle - 1
        /\ chartResult = NoCharts
        /\ \A ch \in Channels : Len(chartSeries[ch]) <= 5 * (cycle - 1)

C8_Witness ==
    /\ failedRead = 2
    /\ cycle = 2
    /\ Len(motor_data) = 5

\* C9: every series a draw_chart call was given is made of whole appends:
\* for each cycle it holds either the five entries of that cycle's sample
\* or none of them.
C9_RenderSeesWholeAppends ==
    \A ch \in Channels :
        LET s == chartSeries[ch] IN
        /\ Len(s) % 5 = 0
        /\ \A c \in 1..(Len(s) \div 5) :
              /\ c \in DOMAIN tasks
              /\ \A j \in Channels :
                    s[5 * (c - 1) + j] = <<SampleOf(c).timestamp, PushValue(SampleOf(c), j)>>

C9_Witness ==
    /\ pc = "drawing"
    /\ cycle = 2
    /\ Len(chartSeries[k]) = 10

\* C10: while the register reads of a cycle are under way, the five pushes
\* of every earlier cycle have been made.
C10_ReadAfterPreviousAppend ==
    pc \in {"read", "await"} => Len(motor_data) = 5 * (cycle - 1)

C10_Witness ==
    /\ pc = "read"
    /\ k = 0
    /\ cycle = 2
    /\ issued = <<>>

\* the rows an earlier run left in the table
OldRows == IF store # <<>> /\ store[1] = OldRow THEN 1 ELSE 0

\* the rows this run has inserted
NewRows == (OldRows + 1)..Len(store)

\* the inserts that have completed
DoneTasks == {i \in DOMAIN tasks : tasks[i].status = "done"}

\* a row holds the six fields of a sample
RowMatches(r, d) ==
    /\ r.timestamp = d.timestamp
    /\ r.current_power = d.current_power
    /\ r.current_torque = d.current_torque
    /\ r.current_speed = d.current_speed
    /\ r.current_heat = d.current_heat
    /\ r.current_cycles = d.current_cycles

\* C11: whatever the order in which the inserts in flight complete, the rows
\* this run has added are in one-to-one correspondence with the completed
\* inserts, each row equal to its sample field for field; with all K inserts
\* completed that is exactly K new rows, and the row ids are all different.
C11_RowsMatchCompletedInserts ==
    /\ Cardinality(NewRows) = Cardinality(DoneTasks)
    /\ \E f \in [DoneTasks -> NewRows] :
          /\ \A i, j \in DoneTasks : f[i] = f[j] => i = j
          /\ \A i \in DoneTasks : RowMatches(store[f[i]], tasks[i].data)
    /\ \A r, q \in DOMAIN store : store[r].id = store[q].id => r = q
    /\ (\A i \in DOMAIN tasks : tasks[i].status = "done") =>
          Len(store) = OldRows + Len(tasks)

\* two inserts were in flight together and completed against their spawn order
C11_Witness ==
    /\ Len(tasks) = 2
    /\ \A i \in DOMAIN tasks : tasks[i].status = "done"
    /\ tasks[1].data.timestamp # tasks[2].data.timestamp
    /\ Len(store) = OldRows + 2
    /\ RowMatches(store[OldRows + 1], tasks[2].data)
    /\ RowMatches(store[OldRows + 2], tasks[1].data)

\* C12: with N cycles completed, none failed and all their inserts done,
\* exactly N inserts were dispatched, the store holds exactly N new rows, and
\* the power channel of the buffer holds exactly N entries, the i-th with the
\* power of the i-th sample.
C12_EveryCycleIsPersistedAndBuffered ==
    (pc = "idle" /\ cycle >= 1 /\ \A i \in DOMAIN tasks : tasks[i].status = "done") =>
        /\ Len(tasks) = cycle
        /\ Len(store) = OldRows + cycle
        /\ Len(DrawArg(1)) = cycle
        /\ \A i \in 1..cycle :
              DrawArg(1)[i] = <<SampleOf(i).timestamp, SampleOf(i).current_power>>

\* C14: in every cycle the requests issued are, in this order, one register
\* at address 0, 1, 2, 3; a request is only issued when every earlier one
\* has returned, and a cycle that goes on to buffer has issued all four.
C14_ReadsInFixedOrder ==
    /\ Len(issued) <= 4
    /\ issued = [i \in 1..Len(issued) |-> <<i - 1, 1>>]
    /\ Len(issued) \in {Len(readings), Len(readings) + 1}
    /\ pc = "read" => Len(issued) = Len(readings)
    /\ pc \in {"lock", "push", "spawn", "draw", "drawing"} => Len(issued) = 4

C14_Witness ==
    /\ pc = "lock"
    /\ cycle = 2
    /\ issued = <<<<0, 1>>, <<1, 1>>, <<2, 1>>, <<3, 1>>>>

\* s is a prefix of t
IsPrefix(s, t) == Len(s) <= Len(t) /\ SubSeq(t, 1, Len(s)) = s

\* C16: every step leaves the entries the buffer already holds where they
\* are and as they are: the buffer before the step is a prefix of the buffer
\* after it.
C16_BufferAppendOnly ==
    [][IsPrefix(motor_data, motor_data')]_vars

C16_Witness ==
    /\ Len(motor_data) = 10
    /\ pc = "spawn"

\* C17: the samples of successive cycles have non-decreasing timestamps, and
\* the buffer is in non-decreasing timestamp order.
C17_TimestampsNonDecreasing ==
    /\ \A i, j \in DOMAIN tasks : i <= j => tasks[i].data.timestamp <= tasks[j].data.timestamp
    /\ \A i, j \in DOMAIN motor_data : i <= j => motor_data[i][1] <= motor_data[j][1]

C17_Witness ==
    /\ Len(tasks) = 2
    /\ tasks[1].data.timestamp < tasks[2].data.timestamp
    /\ Len(motor_data) = 10
    /\ motor_data[5][1] < motor_data[6][1]

\* C19: the current_cycles of every sample is torque * period of its own
\* tick, 10.1, however many cycles ran before it; so is the entry pushed for
\* it.
C19_CyclesIsPerTick ==
    /\ \A i \in DOMAIN tasks :
          /\ SampleOf(i).current_cycles = FMul(SampleOf(i).current_torque, period)
          /\ SampleOf(i).current_cycles = 10100
    /\ \A c \in 1..(Len(motor_data) \div 5) : motor_data[5 * c][2] = 10100

C19_Witness ==
    /\ Len(tasks) = 2
    /\ SampleOf(2).current_cycles = 10100
    /\ Len(motor_data) = 10

\* C18: setup_database run against a store that already has the table and
\* rows can succeed, and when it does the table is there and the rows are
\* what they were.
C18_SetupIdempotent ==
    /\ [][(pc = "setup" /\ pc' = "open") => (table' /\ store' = store)]_vars
    /\ [](pc = "setup" => ENABLED SetupDatabase)

C18_Witness ==
    /\ pc = "open"
    /\ table
    /\ store = <<OldRow>>

\* the positions of the loop body, from the first read to the last chart
InCycle == pc \in {"read", "await", "lock", "push", "spawn", "draw", "drawing"}

\* C20: the buffer lock is free whenever the loop waits for a tick, reads or
\* asks for the lock, so every acquisition succeeds at once; no step of an
\* insert task touches the lock; a cycle always comes back to Idle unless a
\* read or a render fails; and Idle is always followed by the next cycle
\* (up to the cycles the model follows), whatever the inserts in flight do.
C20_NoDeadlockOnBuffer ==
    /\ [](pc \in {"idle", "read", "await", "lock"} => ~locked)
    /\ [](pc = "lock" => ENABLED Lock)
    /\ [][pc' = pc => locked' = locked]_vars
    /\ (InCycle ~> (pc = "idle" \/ panicCause \in {"read", "render"}))
    /\ ((pc = "idle" /\ cycle < MaxCycles) ~> InCycle)

C20_Witness ==
    /\ pc = "push"
    /\ cycle = 2
    /\ locked
    /\ tasks[1].status = "pending"

\* C13: a draw_chart call on an empty series ends by returning Err.
C13_EmptySeriesReturnsErr ==
    (fnSeries = <<>> /\ fnOutcome.result # "none") => fnOutcome.result = "err"

\* C15: the current_power of a sample derived from raw readings (voltage,
\* current) is voltage * current / 1000 kW, which counted in thousandths of a
\* kW is voltage * current; it is 0 when either reading is 0; and two
\* derivations from the same readings agree in every field but the timestamp.
C15_PowerIsVoltsTimesAmpsOverThousand ==
    /\ \A i \in DOMAIN fnSamples :
          /\ fnSamples[i].current_power = fnRegs[1] * fnRegs[2]
          /\ (fnRegs[1] = 0 \/ fnRegs[2] = 0) => fnSamples[i].current_power = 0
    /\ \A i, j \in DOMAIN fnSamples :
          [fnSamples[i] EXCEPT !.timestamp = 0] = [fnSamples[j] EXCEPT !.timestamp = 0]

C15_Witness ==
    /\ Len(fnSamples) = 2
    /\ fnRegs[1] = 40
    /\ fnRegs[2] = 3
    /\ fnSamples[1].current_power = 120
    /\ fnSamples[1].timestamp # fnSamples[2].timestamp

====
